---- MODULE Spec2Model ----
(***************************************************************************)
(* The interrupt-resume protocol of the two terminal drivers of the        *)
(* repository:                                                             *)
(*   deepagent_code/cli.py       (arrow-key menu, conversation loop)       *)
(*   langgraph_utils_cli/cli.py  (numeric menu, one turn per process)      *)
(* The graph engine and the stream normaliser (utils.stream_graph_updates) *)
(* are the environment: one engine invocation is a finite sequence of      *)
(* chunks chosen nondeterministically.                                     *)
(***************************************************************************)
EXTENDS Integers, Sequences, FiniteSets, TLC

\* ------------------------------------------------------------ bounds
\* chunks streamed by one engine invocation
MaxChunks == 2
\* action requests carried by one interrupt chunk
MaxActions == 2
\* engine invocations of one turn that may end suspended: the engine runs
\* at most one more, which streams no interrupt chunk
MaxResumes == 1
\* /c commands of one process
MaxClears == 1
\* largest position of an action request that is serialized on its own
MaxIndex == 5

\* ------------------------------------------------------------ values
\* A JSON value as json.loads returns it: an object {"type": t} or null.
JsonObject(t) == [json |-> "object", type |-> t]
JsonNull == [json |-> "null", type |-> ""]
Approve == JsonObject("approve")
Reject == JsonObject("reject")

\* Python's None / a supplied keyword argument.
None == [some |-> FALSE]
Some(v) == [some |-> TRUE, val |-> v]

\* Text typed by the operator is a sequence of tokens; " " is white space.
\* str.strip(): drop leading and trailing white space.
RECURSIVE lstrip(_)
lstrip(s) == IF s # <<>> /\ Head(s) = " " THEN lstrip(Tail(s)) ELSE s

RECURSIVE rstrip(_)
rstrip(s) ==
    IF s # <<>> /\ s[Len(s)] = " " THEN rstrip(SubSeq(s, 1, Len(s) - 1)) ELSE s

\* A reader that took the line as it was typed.
strip_nothing(s) == s

strip(s) == rstrip(lstrip(s))

\* json.loads on the token text: white space between tokens is skipped; the
\* text is a value when it is `null` or `{ "type" : <string> }`, anything
\* else (the empty text included) raises JSONDecodeError.
JsonStrings == {"approve", "reject", "edit"}

json_loads(s) ==
    LET t == SelectSeq(s, LAMBDA x : x # " ")
    IN  IF t = <<"null">>
        THEN [ok |-> TRUE, value |-> JsonNull]
        ELSE IF /\ Len(t) = 5
                /\ t[1] = "{" /\ t[2] = "type" /\ t[3] = ":"
                /\ t[4] \in JsonStrings /\ t[5] = "}"
             THEN [ok |-> TRUE, value |-> JsonObject(t[4])]
             ELSE [ok |-> FALSE, value |-> JsonNull]

\* What the operator may type at the custom-decision prompt.
JsonTexts ==
    { <<" ", "{", "type", ":", " ", "edit", "}", " ">>,
      <<"null">>,
      <<"not", " ", "valid", " ", "json">>,
      <<>> }

\* [x for _ in range(n)]
Replicate(x, n) == [i \in 1..n |-> x]

\* ------------------------------------------------------------ engine input
\* utils.prepare_agent_input(message=None, decisions=None, raw_input=None):
\* exactly one argument must be supplied (an empty value is a supplied one).
\* A message becomes a list of one user-role message, decisions become the
\* engine's resume command carrying them, a raw payload is handed back as it
\* is; otherwise ValueError is raised with the text given.
NoInput == [kind |-> "none", messages |-> <<>>, decisions |-> <<>>, error |-> ""]

\* A builder that used the first non-empty argument and never counted them.
prepare_agent_input_truthy(message, decisions, raw_input) ==
    IF message.some /\ message.val # <<>>
    THEN [kind |-> "messages",
          messages |-> <<[role |-> "user", content |-> message.val]>>,
          decisions |-> <<>>, error |-> ""]
    ELSE IF decisions.some /\ decisions.val # <<>>
    THEN [kind |-> "resume", messages |-> <<>>, decisions |-> decisions.val,
          error |-> ""]
    ELSE IF raw_input.some
    THEN raw_input.val
    ELSE [kind |-> "ValueError", messages |-> <<>>, decisions |-> <<>>,
          error |-> "Must provide one of"]

\* A builder that sent the message as an assistant message.
prepare_agent_input_wrong_role(message, decisions, raw_input) ==
    IF message.some
    THEN [kind |-> "messages",
          messages |-> <<[role |-> "assistant", content |-> message.val]>>,
          decisions |-> <<>>, error |-> ""]
    ELSE IF decisions.some
    THEN [kind |-> "resume", messages |-> <<>>, decisions |-> decisions.val,
          error |-> ""]
    ELSE IF raw_input.some
    THEN raw_input.val
    ELSE [kind |-> "ValueError", messages |-> <<>>, decisions |-> <<>>,
          error |-> "Must provide one of"]

prepare_agent_input(message, decisions, raw_input) ==
    LET n == (IF message.some THEN 1 ELSE 0) + (IF decisions.some THEN 1 ELSE 0)
             + (IF raw_input.some THEN 1 ELSE 0)
    IN  IF n = 0
        THEN [kind |-> "ValueError", messages |-> <<>>, decisions |-> <<>>,
              error |-> "Must provide one of"]
        ELSE IF n > 1
        THEN [kind |-> "ValueError", messages |-> <<>>, decisions |-> <<>>,
              error |-> "Can only provide one of"]
        ELSE IF message.some
        THEN [kind |-> "messages",
              messages |-> <<[role |-> "user", content |-> message.val]>>,
              decisions |-> <<>>, error |-> ""]
        ELSE IF decisions.some
        THEN [kind |-> "resume", messages |-> <<>>,
              decisions |-> decisions.val, error |-> ""]
        ELSE raw_input.val

\* ------------------------------------------------------------ action requests
\* A tool_call_id: "call_123" is CallId("call_", 123).
CallId(prefix, k) == [prefix |-> prefix, k |-> k]

\* A serializer that synthesized the same id at every position.
serialize_action_request_fixed_id(action, index) ==
    [tool |-> action.tool,
     tool_call_id |-> IF action.tool_call_id.some THEN action.tool_call_id.val
                      ELSE CallId("call_", 0)]

\* utils.serialize_action_request(action, index): the action's fields, with
\* tool_call_id filled with f"call_{index}" when the action has none.
serialize_action_request(action, index) ==
    [tool |-> action.tool,
     tool_call_id |-> IF action.tool_call_id.some THEN action.tool_call_id.val
                      ELSE CallId("call_", index)]

\* ------------------------------------------------------------ interrupts
\* A raw interrupt value, by the shape it arrives in: a 2-tuple
\* (action_requests, review_configs); a 1-tuple wrapping an object that
\* carries the two under dict keys or as attributes; a bare mapping with the
\* two keys; or an action request standing alone.
Tuple2(actions, configs) ==
    [shape |-> "tuple2", access |-> "index",
     value |-> [action_requests |-> actions, review_configs |-> configs]]
Tuple1(access, actions, configs) ==
    [shape |-> "tuple1", access |-> access,
     value |-> [action_requests |-> actions, review_configs |-> configs]]
Mapping(actions, configs) ==
    [shape |-> "mapping", access |-> "keys",
     value |-> [action_requests |-> actions, review_configs |-> configs]]
Single(action) == [shape |-> "single", access |-> "none", value |-> action]

\* An extractor that kept the first action request of an interrupt only.
parse_interrupt_value_first_only(interrupt_value) ==
    IF interrupt_value.shape = "single"
    THEN [action_requests |-> <<interrupt_value.value>>,
          review_configs |-> <<>>]
    ELSE [action_requests |->
              IF interrupt_value.value.action_requests = <<>> THEN <<>>
              ELSE <<Head(interrupt_value.value.action_requests)>>,
          review_configs |-> interrupt_value.value.review_configs]

\* utils.parse_interrupt_value(interrupt_value): the two sequences of a
\* tuple, an unwrapped object or a mapping are used as they are; an action
\* request standing alone is wrapped in a singleton sequence with no review
\* configs.
parse_interrupt_value(interrupt_value) ==
    IF interrupt_value.shape = "single"
    THEN [action_requests |-> <<interrupt_value.value>>,
          review_configs |-> <<>>]
    ELSE [action_requests |-> interrupt_value.value.action_requests,
          review_configs |-> interrupt_value.value.review_configs]

\* utils.process_interrupt(interrupt_value): the parsed action requests,
\* each serialized at its position in the batch (counted from 0), and the
\* review configs.
process_interrupt(interrupt_value) ==
    LET parsed == parse_interrupt_value(interrupt_value)
    IN  [action_requests |->
             [i \in DOMAIN parsed.action_requests |->
                 serialize_action_request(parsed.action_requests[i], i - 1)],
         review_configs |-> parsed.review_configs]

\* ------------------------------------------------------------ chunks
\* A chunk of the normalised stream. n is the length of the interrupt
\* payload's action_requests list, -1 when the key (or the payload) is absent.
Chunks ==
    [status : {"streaming", "complete", "error"}, n : {-1}]
        \cup [status : {"interrupt"}, n : -1..MaxActions]

\* len(chunk.get("interrupt", {}).get("action_requests", []))
action_requests(chunk) == IF chunk.n = -1 THEN 0 ELSE chunk.n

Exceptions == {"SystemExit", "KeyboardInterrupt", "EOFError", "Exception"}

\* One thing the operator sees the driver do during an invocation:
\* spinner.start(), spinner.stop(), or print_chunk(chunk).
NoChunk == [status |-> "", n |-> -1]
Step(ev, chunk) == [ev |-> ev, chunk |-> chunk]
SpinnerStart == Step("spinner.start", NoChunk)
SpinnerStop == Step("spinner.stop", NoChunk)

\* ------------------------------------------------------------ state
VARIABLES
    variant,              \* "deepagent" | "langgraph": which cli.py runs
    use_async,            \* --async-mode
    interactive,          \* --interactive / --no-interactive
    initial_message,      \* -m MESSAGE (<<>>: not given)
    thread_id,            \* config["configurable"]["thread_id"] (-1: no key)
    pc,                   \* where the main thread waits
    in_try,               \* the turn runs inside the loop's try block
    user_input,           \* the conversation loop's last stripped line
    input_data,           \* the TurnInput of the current engine invocation
    has_interrupt,
    num_pending_actions,  \* deepagent driver
    interrupt_data,       \* langgraph driver: n of the last interrupt, -2 None
    first_chunk,
    now,                  \* time.time(), in ticks since the turn was entered
    start_time,           \* the turn driver's start_time (-1: not set)
    duration,             \* the value the turn driver returned (-1: none)
    spinner,              \* "none" | "running" | "stopped"
    selected,             \* select_option: highlighted index
    cursor_hidden,        \* terminal display state
    exit_code,            \* -1 while the process runs
    \* history of the run, read by the properties only
    chunks,               \* chunks streamed by the current invocation
    invocations,          \* engine invocations of the current turn
    thread_ids,           \* the thread_id of the config each was made with
    active,               \* engine streams opened and not yet finished
    collector_calls,      \* Decision Collector calls of the current turn
    returned,             \* what the Decision Collector did last
    raised,               \* the exception that ended the turn ("" if none)
    error_reported,       \* an enclosing handler printed "Error: ..."
    steps,                \* what the current invocation did on the terminal
    call,                 \* a utils function called on its own: name,
                          \* arguments, and its result once it has returned
    spin                  \* one Spinner with its thread: self.running, where
                          \* _spin is, where the caller of start()/stop() is,
                          \* and what has been written to the terminal

\* What no step of a driver changes: the command line, the record of a
\* call made to utils directly, and the Spinner looked at with its thread.
config == <<variant, use_async, interactive, initial_message, call, spin>>
timing == <<now, start_time, duration>>
locals == <<input_data, has_interrupt, num_pending_actions, interrupt_data,
            first_chunk, timing>>
menu == <<selected, cursor_hidden>>
history == <<chunks, invocations, thread_ids, active, collector_calls, returned,
             raised, error_reported, steps>>
vars == <<config, thread_id, pc, in_try, user_input, locals, spinner, menu,
          exit_code, history>>

\* The Decision Collector's last outcome: nothing yet, or a choice path, the
\* text typed, the count it was called with and the decisions it returned.
NoReturn ==
    [path |-> "none", text |-> <<>>, decisions |-> <<>>, pending |-> 0,
     warn |-> FALSE]

\* A config without a thread_id, as it is when the command line gives none.
NoThread == -1

\* str(uuid.uuid4()): an id no config of this process has held.
uuid_uuid4(tid) == tid + 1

\* A main that handed the config on as it came.
ensure_thread_id_missing(tid) == tid

\* `if "thread_id" not in config_dict["configurable"]:
\*      config_dict["configurable"]["thread_id"] = str(uuid.uuid4())`
ensure_thread_id(tid) == IF tid = NoThread THEN uuid_uuid4(tid) ELSE tid

\* Nothing has run yet.
NotStarted ==
    /\ thread_id = NoThread
    /\ pc = "start"
    /\ in_try = FALSE
    /\ user_input = <<>>
    /\ input_data = NoInput
    /\ has_interrupt = FALSE
    /\ num_pending_actions = 0
    /\ interrupt_data = -2
    /\ first_chunk = TRUE
    /\ now = 0
    /\ start_time = -1
    /\ duration = -1
    /\ spinner = "none"
    /\ selected = 0
    /\ cursor_hidden = FALSE
    /\ exit_code = -1
    /\ chunks = <<>>
    /\ invocations = 0
    /\ thread_ids = <<>>
    /\ active = 0
    /\ collector_calls = 0
    /\ returned = NoReturn
    /\ raised = ""
    /\ error_reported = FALSE
    /\ steps = <<>>

\* No utils function has been called on its own.
NoCall == [fn |-> "none", args |-> <<>>, done |-> FALSE, result |-> <<>>]

\* Spinner.__init__: not running, no thread; nothing written yet.
NoSpinner == [running |-> FALSE, thread |-> "none", main |-> "new", out |-> <<>>]

Init ==
    /\ variant \in {"deepagent", "langgraph"}
    /\ use_async \in BOOLEAN
    /\ interactive \in BOOLEAN
    /\ initial_message \in {<<>>, <<"hello">>}
    /\ (variant = "langgraph" => initial_message # <<>>)
    /\ call = NoCall
    /\ spin = NoSpinner
    /\ NotStarted

\* ------------------------------------------------------------ frames
\* The turn's frame is gone: its locals, and the history kept of the turn,
\* start anew. Only differences of clock readings matter, so time is counted
\* from the entry of the next turn.
EndTurn ==
    /\ input_data' = NoInput
    /\ has_interrupt' = FALSE
    /\ num_pending_actions' = 0
    /\ interrupt_data' = -2
    /\ first_chunk' = TRUE
    /\ now' = 0
    /\ start_time' = -1
    /\ duration' = -1
    /\ chunks' = <<>>
    /\ steps' = <<>>
    /\ invocations' = 0
    /\ thread_ids' = <<>>
    /\ collector_calls' = 0
    /\ returned' = NoReturn

\* The process ends with `code`: the frames are gone, what the turn did stays
\* on record.
ExitProcess(code) ==
    /\ pc' = "exited"
    /\ exit_code' = code
    /\ input_data' = NoInput
    /\ has_interrupt' = FALSE
    /\ num_pending_actions' = 0
    /\ interrupt_data' = -2
    /\ first_chunk' = TRUE
    /\ now' = 0
    /\ start_time' = -1
    /\ duration' = -1
    /\ chunks' = <<>>
    /\ steps' = <<>>

\* A loop whose handlers took every exception, SystemExit included (a bare
\* `except:` in place of `except Exception`).
loop_catches_everything(e) == TRUE

\* The except clauses of the conversation loop: `except (EOFError,
\* KeyboardInterrupt): break` and `except Exception as err: print(...)`.
loop_catches(e) == e \in {"EOFError", "KeyboardInterrupt", "Exception"}

loop_breaks(e) == e \in {"EOFError", "KeyboardInterrupt"}

\* An exception that reaches deepagent's main: `except Exception` prints it
\* and exits 1; SystemExit(0) ends the process with code 0; KeyboardInterrupt
\* and EOFError pass main's handlers and end the process with a failure.
main_exit_code(e) == IF e = "SystemExit" THEN 0 ELSE 1

main_reports(e) == e = "Exception"

\* The same for langgraph_utils_cli's main.
lg_main_exit_code(e) == IF e = "SystemExit" THEN 0 ELSE 1

lg_main_reports(e) == e = "Exception"

\* Exception e leaves the turn (or the prompt) and unwinds to the handler
\* that takes it: the conversation loop's, when the raise is inside its try
\* block and it catches e, else main's.
Raise(e, ret) ==
    /\ raised' = e
    /\ IF variant = "deepagent" /\ in_try /\ loop_catches(e)
       THEN IF loop_breaks(e)
            THEN /\ ExitProcess(0)
                 /\ error_reported' = FALSE
                 /\ returned' = ret
                 /\ UNCHANGED <<invocations, thread_ids, collector_calls>>
            ELSE /\ pc' = "prompt"
                 /\ error_reported' = TRUE
                 /\ EndTurn
                 /\ UNCHANGED exit_code
       ELSE IF variant = "deepagent"
       THEN /\ ExitProcess(main_exit_code(e))
            /\ error_reported' = main_reports(e)
            /\ returned' = ret
            /\ UNCHANGED <<invocations, thread_ids, collector_calls>>
       ELSE /\ ExitProcess(lg_main_exit_code(e))
            /\ error_reported' = lg_main_reports(e)
            /\ returned' = ret
            /\ UNCHANGED <<invocations, thread_ids, collector_calls>>

\* ------------------------------------------------------------ deepagent
\* A driver that carried has_interrupt over from the previous invocation.
has_interrupt_not_reset == has_interrupt

\* `has_interrupt = False` at the top of every `while True` iteration.
has_interrupt_reset == FALSE

\* run_single_turn_sync, the top of one `while True` iteration: reset the
\* per-invocation state, start a spinner and open the engine's stream with
\* input_data.
run_single_turn_sync_invoke(input) ==
    /\ input_data' = input
    /\ has_interrupt' = has_interrupt_reset
    /\ num_pending_actions' = 0
    /\ first_chunk' = TRUE
    /\ spinner' = "running"
    /\ chunks' = <<>>
    /\ steps' = <<SpinnerStart>>
    /\ invocations' = invocations + 1
    /\ thread_ids' = Append(thread_ids, thread_id)
    /\ active' = active + 1
    /\ pc' = "stream"
    /\ UNCHANGED interrupt_data

\* run_single_turn_async, the top of one `while True` iteration.
run_single_turn_async_invoke(input) ==
    /\ input_data' = input
    /\ has_interrupt' = has_interrupt_reset
    /\ num_pending_actions' = 0
    /\ first_chunk' = TRUE
    /\ spinner' = "running"
    /\ chunks' = <<>>
    /\ steps' = <<SpinnerStart>>
    /\ invocations' = invocations + 1
    /\ thread_ids' = Append(thread_ids, thread_id)
    /\ active' = active + 1
    /\ pc' = "stream"
    /\ UNCHANGED interrupt_data

\* The turn driver the conversation loop runs: `if use_async:
\* asyncio.run(run_single_turn_async(...)) else: run_single_turn_sync(...)`.
run_single_turn_invoke(input) ==
    IF use_async
    THEN run_single_turn_async_invoke(input)
    ELSE run_single_turn_sync_invoke(input)

\* run_sync_graph / run_async_graph, the top of one iteration.
run_graph_invoke(input) ==
    /\ input_data' = input
    /\ has_interrupt' = FALSE
    /\ interrupt_data' = -2
    /\ chunks' = <<>>
    /\ steps' = <<>>
    /\ invocations' = invocations + 1
    /\ thread_ids' = Append(thread_ids, thread_id)
    /\ active' = active + 1
    /\ pc' = "stream"
    /\ UNCHANGED <<num_pending_actions, first_chunk, spinner>>

\* A driver that opened the turn with a resume carrying no decisions.
first_input_as_resume(message) == prepare_agent_input(None, Some(<<>>), None)

\* input_data = prepare_agent_input(message=message), before the loop.
first_input(message) == prepare_agent_input(Some(message), None, None)

\* time.time(): the clock's reading. The clock advances by one tick while an
\* engine invocation streams and by one while the operator answers the
\* Decision Collector.
time_time == now

\* A driver that took a new start_time at the top of every iteration.
start_time_restarted == now

\* start_time is assigned before the `while True` and nowhere inside it: a
\* new iteration finds it as it was.
start_time_on_resume == start_time

\* A turn starts: the first TurnInput is built from the message, the clock is
\* read into start_time and the engine is invoked.
StartTurn(message, tried) ==
    /\ in_try' = tried
    /\ raised' = ""
    /\ error_reported' = FALSE
    /\ collector_calls' = 0
    /\ returned' = NoReturn
    /\ IF variant = "deepagent"
       THEN /\ start_time' = time_time
            /\ duration' = -1
            /\ UNCHANGED now
            /\ run_single_turn_invoke(first_input(message))
       ELSE /\ run_graph_invoke(first_input(message))
            /\ UNCHANGED timing

\* A driver that asks for a single decision whatever the interrupt carries.
pending_count_one(chunk) == 1

\* A driver that took len(action_requests) as it is, without the default.
pending_count_no_default(chunk) == action_requests(chunk)

\* num_pending_actions = len(action_requests) if action_requests else 1
pending_count(chunk) ==
    IF action_requests(chunk) > 0 THEN action_requests(chunk) ELSE 1

\* A driver that left the for loop for the collector at the interrupt chunk,
\* its stream still open.
stream_after_chunk_eager(chunk) ==
    IF chunk.status = "interrupt" /\ interactive THEN "select" ELSE "stream"

\* After a chunk the for loop pulls the next one: the stream stays the
\* driver's only business until it is exhausted.
stream_after_chunk(chunk) == "stream"

\* A driver that handled an interrupt chunk without rendering it.
print_chunk_unless_interrupt(chunk) ==
    IF chunk.status = "interrupt" THEN <<>> ELSE <<Step("print_chunk", chunk)>>

\* print_chunk(chunk, verbose=verbose): the chunk is rendered, whatever its
\* status.
print_chunk_call(chunk) == <<Step("print_chunk", chunk)>>

\* `if first_chunk: spinner.stop()` at the head of the loop body.
spinner_stop_on_chunk == first_chunk

\* The body of `for chunk in stream_graph_updates(...)` for one chunk: stop
\* the spinner on the first, print the chunk, note an interrupt.
run_single_turn_sync_chunk(chunk) ==
    /\ spinner' = IF spinner_stop_on_chunk THEN "stopped" ELSE spinner
    /\ steps' = steps \o (IF spinner_stop_on_chunk THEN <<SpinnerStop>> ELSE <<>>)
                     \o print_chunk_call(chunk)
    /\ first_chunk' = FALSE
    /\ chunks' = Append(chunks, chunk)
    /\ IF chunk.status = "interrupt"
       THEN /\ has_interrupt' = TRUE
            /\ num_pending_actions' = pending_count(chunk)
       ELSE UNCHANGED <<has_interrupt, num_pending_actions>>
    /\ pc' = stream_after_chunk(chunk)

\* The body of `async for chunk in astream_graph_updates(...)` for one chunk.
run_single_turn_async_chunk(chunk) ==
    /\ spinner' = IF spinner_stop_on_chunk THEN "stopped" ELSE spinner
    /\ steps' = steps \o (IF spinner_stop_on_chunk THEN <<SpinnerStop>> ELSE <<>>)
                     \o print_chunk_call(chunk)
    /\ first_chunk' = FALSE
    /\ chunks' = Append(chunks, chunk)
    /\ IF chunk.status = "interrupt"
       THEN /\ has_interrupt' = TRUE
            /\ num_pending_actions' = pending_count(chunk)
       ELSE UNCHANGED <<has_interrupt, num_pending_actions>>
    /\ pc' = stream_after_chunk(chunk)

\* The stream of the current invocation yields one more chunk to the turn
\* driver that is running.
run_single_turn_chunk(chunk) ==
    /\ variant = "deepagent"
    /\ pc = "stream"
    /\ Len(chunks) < MaxChunks
    /\ chunk.status = "interrupt" => invocations <= MaxResumes
    /\ IF use_async
       THEN run_single_turn_async_chunk(chunk)
       ELSE run_single_turn_sync_chunk(chunk)
    /\ UNCHANGED <<config, thread_id, in_try, user_input, input_data,
                   interrupt_data, timing, menu, exit_code, invocations, thread_ids,
                   active, collector_calls, returned, raised, error_reported>>

\* An exception leaves the for loop: KeyboardInterrupt while waiting for the
\* stream, or an exception of print_chunk. Nothing in the driver catches it,
\* and nothing stops the spinner.
run_single_turn_raise(e) ==
    /\ variant = "deepagent"
    /\ pc = "stream"
    /\ e \in {"KeyboardInterrupt", "Exception"}
    /\ active' = active - 1
    /\ Raise(e, returned)
    /\ UNCHANGED <<config, thread_id, in_try, user_input, spinner, menu>>

\* A driver that ignored the interactive flag.
should_resume_any_mode == has_interrupt

\* `if has_interrupt and interactive:`
should_resume == has_interrupt /\ interactive

\* A driver without the guard for an invocation that streams nothing.
spinner_left_running_after_stream == FALSE

\* `if first_chunk: spinner.stop()` after the for loop.
spinner_stop_after_stream == first_chunk

\* Stream exhausted (the invocation took its time): stop the spinner if no
\* chunk did, then either enter the Decision Collector (handle_interrupt_input
\* -> select_option: cursor hidden, first option highlighted) or break and
\* `return time.time() - start_time`.
run_single_turn_sync_stream_end ==
    /\ spinner' = IF spinner_stop_after_stream THEN "stopped" ELSE spinner
    /\ steps' = steps \o (IF spinner_stop_after_stream THEN <<SpinnerStop>>
                                                      ELSE <<>>)
    /\ active' = active - 1
    /\ now' = now + 1
    /\ IF should_resume
       THEN /\ pc' = "select"
            /\ selected' = 0
            /\ cursor_hidden' = TRUE
            /\ collector_calls' = collector_calls + 1
            /\ UNCHANGED <<start_time, duration>>
       ELSE /\ pc' = "returned"
            /\ duration' = now' - start_time
            /\ UNCHANGED <<menu, collector_calls, start_time>>

\* An async driver that returned after its first invocation whatever the
\* stream carried.
run_single_turn_async_stream_end_no_resume ==
    /\ spinner' = IF spinner_stop_after_stream THEN "stopped" ELSE spinner
    /\ steps' = steps \o (IF spinner_stop_after_stream THEN <<SpinnerStop>>
                                                      ELSE <<>>)
    /\ active' = active - 1
    /\ now' = now + 1
    /\ pc' = "returned"
    /\ duration' = now' - start_time
    /\ UNCHANGED <<menu, collector_calls, start_time>>

\* The same point of run_single_turn_async, after its `async for`.
run_single_turn_async_stream_end ==
    /\ spinner' = IF spinner_stop_after_stream THEN "stopped" ELSE spinner
    /\ steps' = steps \o (IF spinner_stop_after_stream THEN <<SpinnerStop>>
                                                      ELSE <<>>)
    /\ active' = active - 1
    /\ now' = now + 1
    /\ IF should_resume
       THEN /\ pc' = "select"
            /\ selected' = 0
            /\ cursor_hidden' = TRUE
            /\ collector_calls' = collector_calls + 1
            /\ UNCHANGED <<start_time, duration>>
       ELSE /\ pc' = "returned"
            /\ duration' = now' - start_time
            /\ UNCHANGED <<menu, collector_calls, start_time>>

\* The stream of the current invocation is exhausted.
run_single_turn_stream_end ==
    /\ variant = "deepagent"
    /\ pc = "stream"
    /\ IF use_async
       THEN run_single_turn_async_stream_end
       ELSE run_single_turn_sync_stream_end
    /\ UNCHANGED <<config, thread_id, in_try, user_input, input_data,
                   has_interrupt, num_pending_actions, interrupt_data,
                   first_chunk, exit_code, chunks, invocations, thread_ids, returned,
                   raised, error_reported>>

\* ------------------------------------------------------------ collector
\* A collector that returned a single decision whatever num_actions is.
handle_interrupt_input_first_only(num_actions, choice, text) ==
    LET one(path, d, w) ==
            [path |-> path, exits |-> FALSE, warn |-> w,
             decisions |-> Replicate(d, 1)]
    IN  IF choice = 0 THEN one("approve", Approve, FALSE)
        ELSE IF choice = 1 THEN one("reject", Reject, FALSE)
        ELSE IF choice = 2
        THEN LET r == json_loads(strip(text))
             IN  IF r.ok THEN one("custom", r.value, FALSE)
                 ELSE one("invalid", Reject, TRUE)
        ELSE [path |-> "exit", exits |-> TRUE, warn |-> FALSE,
              decisions |-> <<>>]

\* A collector whose reject-all choice returned approvals.
handle_interrupt_input_swapped(num_actions, choice, text) ==
    LET all(path, d, w) ==
            [path |-> path, exits |-> FALSE, warn |-> w,
             decisions |-> Replicate(d, num_actions)]
    IN  IF choice = 0 THEN all("approve", Approve, FALSE)
        ELSE IF choice = 1 THEN all("reject", Approve, FALSE)
        ELSE IF choice = 2
        THEN LET r == json_loads(strip(text))
             IN  IF r.ok THEN all("custom", r.value, FALSE)
                 ELSE all("invalid", Reject, TRUE)
        ELSE [path |-> "exit", exits |-> TRUE, warn |-> FALSE,
              decisions |-> <<>>]

\* handle_interrupt_input(num_actions) of deepagent_code, as a function of
\* what the operator does: the menu index select_option returns and, for the
\* custom choice, the line typed. It returns decisions or exits.
handle_interrupt_input(num_actions, choice, text) ==
    LET all(path, d, w) ==
            [path |-> path, exits |-> FALSE, warn |-> w,
             decisions |-> Replicate(d, num_actions)]
    IN  IF choice = 0 THEN all("approve", Approve, FALSE)
        ELSE IF choice = 1 THEN all("reject", Reject, FALSE)
        ELSE IF choice = 2
        THEN LET r == json_loads(strip(text))
             IN  IF r.ok THEN all("custom", r.value, FALSE)
                 ELSE all("invalid", Reject, TRUE)
        ELSE [path |-> "exit", exits |-> TRUE, warn |-> FALSE,
              decisions |-> <<>>]

\* A driver that resumed with the first decision only.
resume_input_first(decisions) ==
    prepare_agent_input(None, Some(SubSeq(decisions, 1, 1)), None)

\* input_data = prepare_agent_input(decisions=decisions)
resume_input(decisions) == prepare_agent_input(None, Some(decisions), None)

\* A driver that gave up resuming one cycle before the engine stopped
\* suspending.
resume_loop_bounded == invocations < MaxResumes

\* `while True:` the loop itself has no condition: after a decision it always
\* goes round again.
resume_loop_continues == TRUE

\* The collector has an outcome r for the operator's choice (and text):
\* SystemExit(0) is raised, or the driver builds the resume input from the
\* decisions and goes round its loop, invoking the engine again.
Collected(r, text, pending) ==
    IF r.exits
    THEN /\ Raise("SystemExit",
                  [path |-> r.path, text |-> text, decisions |-> <<>>,
                   pending |-> pending, warn |-> FALSE])
         /\ UNCHANGED <<spinner, active>>
    ELSE /\ invocations <= MaxResumes
         /\ resume_loop_continues
         /\ returned' = [path |-> r.path, text |-> text,
                         decisions |-> r.decisions, pending |-> pending,
                         warn |-> r.warn]
         /\ now' = now + 1
         /\ start_time' = start_time_on_resume
         /\ run_single_turn_invoke(resume_input(r.decisions))
         /\ UNCHANGED <<raised, exit_code, error_reported, collector_calls,
                        duration>>

Keys == {"up", "down", "enter", "ctrl-c", "x"}

\* num_options = len(options): the four entries of the menu.
num_options == 4

\* A select_option without its try/finally: the cursor stays as it was.
select_option_without_finally == cursor_hidden

\* `finally: print("\033[?25h")`: whether the cursor is hidden once control
\* has left select_option's try block.
select_option_finally == FALSE

\* A menu whose highlight wrapped round at either end.
select_option_move_wraps(key, index) ==
    IF key = "up" THEN (index + num_options - 1) % num_options
    ELSE IF key = "down" THEN (index + 1) % num_options
    ELSE index

\* `if key == 'up' and selected > 0: selected -= 1
\*  elif key == 'down' and selected < num_options - 1: selected += 1`:
\* the index highlighted after a key that neither confirms nor cancels.
select_option_move(key, index) ==
    IF key = "up" /\ index > 0 THEN index - 1
    ELSE IF key = "down" /\ index < num_options - 1 THEN index + 1
    ELSE index

\* One pass of select_option's `while True` for the key get_key returns.
\* Enter leaves the loop (the finally shows the cursor) and
\* handle_interrupt_input goes on with the highlighted index: choices 0, 1
\* and 3 finish at once, choice 2 waits for the JSON line. Ctrl-C shows the
\* cursor and exits the process.
select_option_key(key) ==
    /\ variant = "deepagent"
    /\ pc = "select"
    /\ IF key \notin {"enter", "ctrl-c"}
       THEN /\ selected' = select_option_move(key, selected)
            /\ UNCHANGED <<cursor_hidden, pc, locals, spinner, exit_code,
                           history>>
       ELSE IF key = "enter"
       THEN /\ cursor_hidden' = select_option_finally
            /\ selected' = 0
            /\ IF selected = 2
               THEN /\ pc' = "json"
                    /\ UNCHANGED <<locals, spinner, exit_code, history>>
               ELSE /\ Collected(handle_interrupt_input(num_pending_actions,
                                                        selected, <<>>),
                                 <<>>, num_pending_actions)
       ELSE /\ cursor_hidden' = FALSE
            /\ selected' = 0
            /\ Raise("SystemExit", returned)
            /\ UNCHANGED <<spinner, active>>
    /\ UNCHANGED <<config, thread_id, in_try, user_input>>

\* get_key raises (stdin is no terminal): the finally shows the cursor.
select_option_raise ==
    /\ variant = "deepagent"
    /\ pc = "select"
    /\ cursor_hidden' = select_option_finally
    /\ selected' = 0
    /\ Raise("Exception", returned)
    /\ UNCHANGED <<config, thread_id, in_try, user_input, spinner, active>>

\* Choice 2: the line read by input(), stripped and parsed.
handle_interrupt_input_json(text) ==
    /\ variant = "deepagent"
    /\ pc = "json"
    /\ Collected(handle_interrupt_input(num_pending_actions, 2, text), text,
                 num_pending_actions)
    /\ UNCHANGED <<config, thread_id, in_try, user_input, menu>>

\* input() at the JSON prompt raises EOFError or KeyboardInterrupt.
handle_interrupt_input_json_raise(e) ==
    /\ variant = "deepagent"
    /\ pc = "json"
    /\ e \in {"EOFError", "KeyboardInterrupt"}
    /\ Raise(e, returned)
    /\ UNCHANGED <<config, thread_id, in_try, user_input, spinner, menu,
                   active>>

\* ------------------------------------------------------------ langgraph
\* The body of run_sync_graph's / run_async_graph's for loop for one chunk:
\* print it, remember an interrupt's payload.
run_graph_chunk(chunk) ==
    /\ variant = "langgraph"
    /\ pc = "stream"
    /\ Len(chunks) < MaxChunks
    /\ chunk.status = "interrupt" => invocations <= MaxResumes
    /\ chunks' = Append(chunks, chunk)
    /\ steps' = steps \o print_chunk_call(chunk)
    /\ IF chunk.status = "interrupt"
       THEN /\ has_interrupt' = TRUE
            /\ interrupt_data' = chunk.n
       ELSE UNCHANGED <<has_interrupt, interrupt_data>>
    /\ UNCHANGED <<config, thread_id, pc, in_try, user_input, input_data,
                   num_pending_actions, first_chunk, timing, spinner, menu,
                   exit_code,
                   invocations, thread_ids, active, collector_calls, returned,
                   raised, error_reported>>

\* An exception leaves the for loop and the driver.
run_graph_raise(e) ==
    /\ variant = "langgraph"
    /\ pc = "stream"
    /\ e \in {"KeyboardInterrupt", "Exception"}
    /\ active' = active - 1
    /\ Raise(e, returned)
    /\ UNCHANGED <<config, thread_id, in_try, user_input, spinner, menu>>

\* A langgraph driver that ignored the interactive flag.
lg_should_resume_any_mode == has_interrupt

\* `if has_interrupt and interactive:` of the langgraph driver.
lg_should_resume == has_interrupt /\ interactive

\* Stream exhausted: prompt for a numeric choice, or break and return.
run_graph_stream_end ==
    /\ variant = "langgraph"
    /\ pc = "stream"
    /\ active' = active - 1
    /\ IF lg_should_resume
       THEN /\ pc' = "choice"
            /\ collector_calls' = collector_calls + 1
       ELSE /\ pc' = "returned"
            /\ UNCHANGED collector_calls
    /\ UNCHANGED <<config, thread_id, in_try, user_input, locals, spinner,
                   menu, exit_code, chunks, invocations, thread_ids, returned,
                   raised, error_reported, steps>>

\* handle_interrupt_input(interrupt_data) of langgraph_utils_cli: one
\* decision object for the number entered (and the JSON typed), or exit.
lg_handle_interrupt_input(data, choice, text) ==
    LET one(path, d, w) ==
            [path |-> path, exits |-> FALSE, warn |-> w, decision |-> d]
    IN  IF choice = 1 THEN one("approve", Approve, FALSE)
        ELSE IF choice = 2 THEN one("reject", Reject, FALSE)
        ELSE IF choice = 3
        THEN LET r == json_loads(text)
             IN  IF r.ok THEN one("custom", r.value, FALSE)
                 ELSE one("invalid", Reject, TRUE)
        ELSE [path |-> "exit", exits |-> TRUE, warn |-> FALSE,
              decision |-> JsonNull]

\* input_data = prepare_agent_input(decisions=[decision])
lg_resume_input(decision) == prepare_agent_input(None, Some(<<decision>>), None)

\* len(action_requests) of the interrupt the collector was called for, 1 when
\* the payload lists none.
lg_pending == IF interrupt_data > 0 THEN interrupt_data ELSE 1

lg_Collected(r, text) ==
    IF r.exits
    THEN /\ Raise("SystemExit",
                  [path |-> r.path, text |-> text, decisions |-> <<>>,
                   pending |-> lg_pending, warn |-> FALSE])
         /\ UNCHANGED active
    ELSE /\ invocations <= MaxResumes
         /\ returned' = [path |-> r.path, text |-> text,
                         decisions |-> <<r.decision>>, pending |-> lg_pending,
                         warn |-> r.warn]
         /\ run_graph_invoke(lg_resume_input(r.decision))
         /\ UNCHANGED <<raised, exit_code, error_reported, collector_calls,
                        timing>>

\* Numbers the operator may enter at click.prompt(type=int, default=1).
NumericChoices == 0..5

\* The numeric menu answered: 3 goes on to the JSON prompt, every other
\* number finishes at once.
lg_handle_interrupt_input_choice(choice) ==
    /\ variant = "langgraph"
    /\ pc = "choice"
    /\ IF choice = 3
       THEN /\ pc' = "json"
            /\ UNCHANGED <<locals, exit_code, history>>
       ELSE /\ lg_Collected(lg_handle_interrupt_input(interrupt_data, choice,
                                                      <<>>), <<>>)
    /\ UNCHANGED <<config, thread_id, in_try, user_input, spinner, menu>>

\* Choice 3: the text click.prompt("Decision JSON") returns (never empty).
lg_handle_interrupt_input_json(text) ==
    /\ variant = "langgraph"
    /\ pc = "json"
    /\ text # <<>>
    /\ lg_Collected(lg_handle_interrupt_input(interrupt_data, 3, text), text)
    /\ UNCHANGED <<config, thread_id, in_try, user_input, spinner, menu>>

\* Ctrl-C or end of input at either click.prompt: click raises Abort, an
\* Exception.
lg_handle_interrupt_input_abort ==
    /\ variant = "langgraph"
    /\ pc \in {"choice", "json"}
    /\ Raise("Exception", returned)
    /\ UNCHANGED <<config, thread_id, in_try, user_input, spinner, menu,
                   active>>

\* ------------------------------------------------------------ entry points
\* deepagent main, up to its call of run_conversation_loop: it makes sure
\* the config has a thread_id.
main_ensure_thread_id ==
    /\ variant = "deepagent"
    /\ pc = "start"
    /\ thread_id' = ensure_thread_id(thread_id)
    /\ pc' = "loop"
    /\ UNCHANGED <<config, in_try, user_input, locals, spinner, menu,
                   exit_code, history>>

\* run_conversation_loop: the initial message, when given, is run before the
\* loop and outside its try block.
run_conversation_loop_initial ==
    /\ variant = "deepagent"
    /\ pc = "loop"
    /\ IF initial_message # <<>>
       THEN /\ StartTurn(initial_message, FALSE)
            /\ UNCHANGED <<config, thread_id, user_input, menu, exit_code>>
       ELSE /\ pc' = "prompt"
            /\ in_try' = TRUE
            /\ UNCHANGED <<config, thread_id, user_input, locals, spinner,
                           menu, exit_code, history>>

\* langgraph main: one turn with the message, inside main's try block.
lg_main_run ==
    /\ variant = "langgraph"
    /\ pc = "start"
    /\ StartTurn(initial_message, FALSE)
    /\ UNCHANGED <<config, thread_id, user_input, menu, exit_code>>

\* What the operator may type at the conversation prompt.
UserInputs ==
    { <<>>, <<" ">>, <<"/q">>, <<"/quit">>, <<"/exit">>, <<"exit">>,
      <<"/c">>, <<"/h">>, <<"/help">>, <<" ", "hi", " ">>, <<" ", "/q">> }

QuitCommands == {<<"/q">>, <<"/quit">>, <<"/exit">>, <<"exit">>}
HelpCommands == {<<"/h">>, <<"/help">>}

\* One pass of the main `while True` for the line input() returns.
run_conversation_loop_input(line) ==
    /\ variant = "deepagent"
    /\ pc = "prompt"
    /\ user_input' = strip(line)
    /\ IF user_input' = <<>> \/ user_input' \in HelpCommands
       THEN UNCHANGED <<thread_id, pc, in_try, locals, spinner, exit_code,
                        history>>
       ELSE IF user_input' \in QuitCommands
       THEN /\ ExitProcess(0)
            /\ UNCHANGED <<thread_id, in_try, spinner, invocations, thread_ids, active,
                           collector_calls, returned, raised,
                           error_reported>>
       ELSE IF user_input' = <<"/c">>
       THEN /\ thread_id < MaxClears
            /\ thread_id' = uuid_uuid4(thread_id)
            /\ UNCHANGED <<pc, in_try, locals, spinner, exit_code, history>>
       ELSE /\ StartTurn(user_input', TRUE)
            /\ UNCHANGED <<thread_id, exit_code>>
    /\ UNCHANGED <<config, menu>>

\* input() at the conversation prompt raises EOFError or KeyboardInterrupt.
run_conversation_loop_input_raise(e) ==
    /\ variant = "deepagent"
    /\ pc = "prompt"
    /\ e \in {"EOFError", "KeyboardInterrupt"}
    /\ Raise(e, returned)
    /\ UNCHANGED <<config, thread_id, in_try, user_input, spinner, menu,
                   active>>

\* The turn returned its duration: print_timing, then the prompt.
run_conversation_loop_after_turn ==
    /\ variant = "deepagent"
    /\ pc = "returned"
    /\ pc' = "prompt"
    /\ in_try' = TRUE
    /\ EndTurn
    /\ UNCHANGED <<config, thread_id, user_input, spinner, menu, exit_code,
                   active, raised, error_reported>>

\* run_sync_graph returned: main returns and the process ends.
lg_main_return ==
    /\ variant = "langgraph"
    /\ pc = "returned"
    /\ ExitProcess(0)
    /\ UNCHANGED <<config, thread_id, in_try, user_input, spinner, menu,
                   invocations, thread_ids, active, collector_calls, returned,
                   raised, error_reported>>

\* ------------------------------------------------------------ specification
Next ==
    \/ main_ensure_thread_id
    \/ run_conversation_loop_initial
    \/ \E line \in UserInputs : run_conversation_loop_input(line)
    \/ \E e \in Exceptions : run_conversation_loop_input_raise(e)
    \/ run_conversation_loop_after_turn
    \/ \E chunk \in Chunks : run_single_turn_chunk(chunk)
    \/ \E e \in Exceptions : run_single_turn_raise(e)
    \/ run_single_turn_stream_end
    \/ \E key \in Keys : select_option_key(key)
    \/ select_option_raise
    \/ \E text \in JsonTexts : handle_interrupt_input_json(text)
    \/ \E e \in Exceptions : handle_interrupt_input_json_raise(e)
    \/ lg_main_run
    \/ lg_main_return
    \/ \E chunk \in Chunks : run_graph_chunk(chunk)
    \/ \E e \in Exceptions : run_graph_raise(e)
    \/ run_graph_stream_end
    \/ \E choice \in NumericChoices : lg_handle_interrupt_input_choice(choice)
    \/ \E text \in JsonTexts : lg_handle_interrupt_input_json(text)
    \/ lg_handle_interrupt_input_abort

Spec == Init /\ [][Next]_vars

\* The environment that lets a turn end: every engine stream is exhausted
\* after finitely many chunks, and the operator, asked for a decision,
\* eventually presses Enter (or enters a number) and, asked for the JSON line,
\* eventually types it. That the engine stops suspending is MaxResumes.
Fairness ==
    /\ WF_vars(run_single_turn_stream_end)
    /\ WF_vars(run_graph_stream_end)
    /\ WF_vars(select_option_key("enter"))
    /\ WF_vars(\E text \in JsonTexts : handle_interrupt_input_json(text))
    /\ WF_vars(\E choice \in NumericChoices :
                   lg_handle_interrupt_input_choice(choice))
    /\ WF_vars(\E text \in JsonTexts : lg_handle_interrupt_input_json(text))

\* Whether a turn ends depends on a chunk only through its being an
\* interrupt chunk or not: one chunk of either kind.
LiveChunks ==
    {[status |-> "complete", n |-> -1], [status |-> "interrupt", n |-> 1]}

LiveNext ==
    \/ main_ensure_thread_id
    \/ run_conversation_loop_initial
    \/ \E line \in UserInputs : run_conversation_loop_input(line)
    \/ \E e \in Exceptions : run_conversation_loop_input_raise(e)
    \/ run_conversation_loop_after_turn
    \/ \E chunk \in LiveChunks : run_single_turn_chunk(chunk)
    \/ \E e \in Exceptions : run_single_turn_raise(e)
    \/ run_single_turn_stream_end
    \/ \E key \in Keys : select_option_key(key)
    \/ select_option_raise
    \/ \E text \in JsonTexts : handle_interrupt_input_json(text)
    \/ \E e \in Exceptions : handle_interrupt_input_json_raise(e)
    \/ lg_main_run
    \/ lg_main_return
    \/ \E chunk \in LiveChunks : run_graph_chunk(chunk)
    \/ \E e \in Exceptions : run_graph_raise(e)
    \/ run_graph_stream_end
    \/ \E choice \in NumericChoices : lg_handle_interrupt_input_choice(choice)
    \/ \E text \in JsonTexts : lg_handle_interrupt_input_json(text)
    \/ lg_handle_interrupt_input_abort

LiveSpec == Init /\ [][LiveNext]_vars /\ Fairness

\* ------------------------------------------------------------ utils on its own
\* The functions of utils called directly, as tests/test_utils.py does, with
\* arguments the drivers never pass.
Opt(S) == {None} \cup {Some(v) : v \in S}

Messages == {<<>>, <<"hello">>}
DecisionLists == {<<>>, <<Approve>>, <<Approve, Reject>>}
RawInputs == {[custom |-> "data"]}
SuppliedIds == {CallId("call_", 123), CallId("call_", 1)}
Actions == [tool : {"t"}, tool_call_id : Opt(SuppliedIds)]

\* Interrupt values handed to process_interrupt: up to MaxActions action
\* requests, with or without ids, and at most one review config.
InterruptTools == {"test_tool", "other_tool"}
InterruptActions == [tool : InterruptTools, tool_call_id : Opt({CallId("call_", 1)})]
ActionLists ==
    UNION {[1..n -> InterruptActions] : n \in 0..MaxActions}
ReviewConfigLists == {<<>>, <<[allowed_decisions |-> <<"approve", "reject">>]>>}
InterruptValues ==
    {Tuple2(a, c) : a \in ActionLists, c \in ReviewConfigLists}
        \cup {Tuple1(x, a, c) : x \in {"keys", "attrs"}, a \in ActionLists,
                                c \in ReviewConfigLists}
        \cup {Mapping(a, c) : a \in ActionLists, c \in ReviewConfigLists}
        \cup {Single(a) : a \in InterruptActions}

UtilsInit ==
    /\ variant = "deepagent"
    /\ use_async = FALSE
    /\ interactive = TRUE
    /\ initial_message = <<>>
    /\ NotStarted
    /\ spin = NoSpinner
    /\ \/ call \in [fn : {"prepare_agent_input"},
                    args : [message : Opt(Messages),
                            decisions : Opt(DecisionLists),
                            raw_input : Opt(RawInputs)],
                    done : {FALSE}, result : {<<>>}]
       \/ call \in [fn : {"serialize_action_request"},
                    args : [action : Actions, index : 0..MaxIndex,
                            other : Actions, other_index : 0..MaxIndex],
                    done : {FALSE}, result : {<<>>}]
       \/ call \in [fn : {"process_interrupt"},
                    args : [interrupt_value : InterruptValues],
                    done : {FALSE}, result : {<<>>}]

driver_vars == <<variant, use_async, interactive, initial_message, thread_id,
                 pc, in_try, user_input, locals, spinner, menu, exit_code,
                 history>>

\* result = prepare_agent_input(message=..., decisions=..., raw_input=...)
prepare_agent_input_call ==
    /\ call.fn = "prepare_agent_input"
    /\ ~call.done
    /\ call' = [call EXCEPT
                   !.done = TRUE,
                   !.result = prepare_agent_input(call.args.message,
                                                  call.args.decisions,
                                                  call.args.raw_input)]
    /\ UNCHANGED <<driver_vars, spin>>

\* Two actions of one interrupt, each serialized at its position.
serialize_action_request_call ==
    /\ call.fn = "serialize_action_request"
    /\ ~call.done
    /\ call' = [call EXCEPT
                   !.done = TRUE,
                   !.result = <<serialize_action_request(call.args.action,
                                                         call.args.index),
                                serialize_action_request(call.args.other,
                                                         call.args.other_index)>>]
    /\ UNCHANGED <<driver_vars, spin>>

\* result = process_interrupt(interrupt_value)
process_interrupt_call ==
    /\ call.fn = "process_interrupt"
    /\ ~call.done
    /\ call' = [call EXCEPT
                   !.done = TRUE,
                   !.result = process_interrupt(call.args.interrupt_value)]
    /\ UNCHANGED <<driver_vars, spin>>

UtilsNext ==
    \/ prepare_agent_input_call
    \/ serialize_action_request_call
    \/ process_interrupt_call

UtilsSpec == UtilsInit /\ [][UtilsNext]_vars

\* ------------------------------------------------------------ the spinner thread
\* Frames the spinner thread writes before it is made to stop.
MaxFrames == 3

SpinnerInit ==
    /\ variant = "deepagent"
    /\ use_async = FALSE
    /\ interactive = TRUE
    /\ initial_message = <<>>
    /\ NotStarted
    /\ call = NoCall
    /\ spin = NoSpinner

Frames(out) == Cardinality({i \in DOMAIN out : out[i] = "frame"})

\* Spinner.start(): set the flag, create and start the daemon thread.
Spinner_start ==
    /\ spin.main = "new"
    /\ spin' = [spin EXCEPT !.running = TRUE, !.thread = "test",
                            !.main = "started"]
    /\ UNCHANGED <<driver_vars, call>>

\* _spin, `while self.running:` the thread reads the flag and goes on to
\* write a frame, or ends.
Spinner_spin_test ==
    /\ spin.thread = "test"
    /\ spin.running => Frames(spin.out) < MaxFrames
    /\ spin' = [spin EXCEPT !.thread = IF spin.running THEN "write"
                                                        ELSE "ended"]
    /\ UNCHANGED <<driver_vars, call>>

\* _spin, the print of one frame.
Spinner_spin_write ==
    /\ spin.thread = "write"
    /\ spin' = [spin EXCEPT !.out = Append(@, "frame"), !.thread = "sleep"]
    /\ UNCHANGED <<driver_vars, call>>

\* _spin, time.sleep(0.08) is over.
Spinner_spin_sleep ==
    /\ spin.thread = "sleep"
    /\ spin' = [spin EXCEPT !.thread = "test"]
    /\ UNCHANGED <<driver_vars, call>>

\* Spinner.stop(), `self.running = False`.
Spinner_stop ==
    /\ spin.main = "started"
    /\ spin' = [spin EXCEPT !.running = FALSE, !.main = "join"]
    /\ UNCHANGED <<driver_vars, call>>

\* self.thread.join(timeout=0.2) returns although the thread has not ended:
\* the timeout is over.
join_timeout == spin.thread # "ended"

\* Spinner.stop(), `self.thread.join(timeout=0.2)` returns: the thread has
\* ended, or the timeout is over.
Spinner_stop_join ==
    /\ spin.main = "join"
    /\ spin.thread = "ended" \/ join_timeout
    /\ spin' = [spin EXCEPT !.main = "clear"]
    /\ UNCHANGED <<driver_vars, call>>

\* Spinner.stop(), the line is cleared and stop() returns.
Spinner_stop_clear ==
    /\ spin.main = "clear"
    /\ spin' = [spin EXCEPT !.out = Append(@, "clear"), !.main = "stopped"]
    /\ UNCHANGED <<driver_vars, call>>

\* The caller goes on: print_chunk(chunk), or the decision menu.
Spinner_caller_prints(what) ==
    /\ spin.main = "stopped"
    /\ what \in {"chunk", "menu"}
    /\ spin' = [spin EXCEPT !.out = Append(@, what), !.main = "printed"]
    /\ UNCHANGED <<driver_vars, call>>

SpinnerNext ==
    \/ Spinner_start
    \/ Spinner_spin_test
    \/ Spinner_spin_write
    \/ Spinner_spin_sleep
    \/ Spinner_stop
    \/ Spinner_stop_join
    \/ Spinner_stop_clear
    \/ \E what \in {"chunk", "menu"} : Spinner_caller_prints(what)

SpinnerSpec == SpinnerInit /\ [][SpinnerNext]_vars

TypeOK ==
    /\ pc \in {"start", "loop", "prompt", "stream", "select", "json",
               "choice", "returned", "exited"}
    /\ raised \in Exceptions \cup {""}
    /\ exit_code \in {-1, 0, 1}
    /\ selected \in 0..(num_options - 1)
    /\ Len(chunks) <= MaxChunks
    /\ spinner \in {"none", "running", "stopped"}

\* ------------------------------------------------------------ properties
HasInterruptChunk(seq) == \E i \in DOMAIN seq : seq[i].status = "interrupt"
HasErrorChunk(seq) == \E i \in DOMAIN seq : seq[i].status = "error"

\* The position of the last interrupt chunk of seq (0 when there is none).
LastInterrupt(seq) ==
    IF HasInterruptChunk(seq)
    THEN CHOOSE i \in DOMAIN seq :
             /\ seq[i].status = "interrupt"
             /\ \A j \in DOMAIN seq : seq[j].status = "interrupt" => j <= i
    ELSE 0

InCollector == pc \in {"select", "json", "choice"}
Returning == {"approve", "reject", "custom", "invalid"}

\* C1: in the deepagent turn driver with interactive=True, once an
\* invocation's stream is exhausted the Decision Collector is entered exactly
\* when that invocation streamed an interrupt chunk, and the turn returns
\* exactly when it streamed none; every decision collected so far was
\* followed by one more engine invocation.
C1_ContinueDecidedPerInvocation ==
    (variant = "deepagent" /\ interactive) =>
        /\ InCollector => HasInterruptChunk(chunks)
        /\ pc = "returned" => ~HasInterruptChunk(chunks)
        /\ pc \in {"stream", "returned"} => invocations = collector_calls + 1
        /\ InCollector => invocations = collector_calls

C1_Witness ==
    /\ variant = "deepagent"
    /\ interactive
    /\ pc = "returned"
    /\ invocations = 2
    /\ returned.path = "approve"

C3_DecisionCount ==
    returned.path \in Returning =>
        /\ returned.pending >= 1
        /\ Len(returned.decisions) = returned.pending
        /\ input_data.kind = "resume" =>
               Len(input_data.decisions) = returned.pending

C5_ResumeCarriesReturnedDecisions ==
    (invocations >= 2 /\ pc # "exited") =>
        /\ returned.path \in Returning
        /\ input_data.kind = "resume"
        /\ input_data.decisions = returned.decisions
        /\ pc = "stream" => collector_calls = invocations - 1

C5_Witness ==
    /\ pc = "stream"
    /\ invocations = 2
    /\ Len(returned.decisions) = 2
    /\ input_data.decisions = <<Reject, Reject>>

\* C6: the deepagent Decision Collector returns {type: approve} for every
\* pending action on approve-all, {type: reject} for every pending action on
\* reject-all, and on custom the JSON value of the line typed, the same for
\* every pending action.
C6_DecisionContents ==
    variant = "deepagent" =>
        /\ returned.path = "approve" =>
               /\ Len(returned.decisions) = returned.pending
               /\ \A i \in DOMAIN returned.decisions :
                      returned.decisions[i] = [json |-> "object", type |-> "approve"]
        /\ returned.path = "reject" =>
               /\ Len(returned.decisions) = returned.pending
               /\ \A i \in DOMAIN returned.decisions :
                      returned.decisions[i] = [json |-> "object", type |-> "reject"]
        /\ returned.path = "custom" =>
               /\ Len(returned.decisions) = returned.pending
               /\ \A i \in DOMAIN returned.decisions :
                      returned.decisions[i] = json_loads(strip(returned.text)).value
               /\ returned.text = <<" ", "{", "type", ":", " ", "edit", "}", " ">> =>
                      returned.decisions[1] = [json |-> "object", type |-> "edit"]

C6_Witness ==
    /\ variant = "deepagent"
    /\ returned.path = "custom"
    /\ returned.pending = 2
    /\ returned.decisions = <<JsonObject("edit"), JsonObject("edit")>>

\* C7: a custom decision whose text is not valid JSON does not end the turn:
\* the collector shows an error, returns one reject per pending action, and
\* the engine is resumed with exactly those rejects.
C7_InvalidJsonRejectsAll ==
    returned.path = "invalid" =>
        /\ returned.warn
        /\ Len(returned.decisions) = returned.pending
        /\ \A i \in DOMAIN returned.decisions : returned.decisions[i] = Reject
        /\ invocations >= 2
        /\ pc # "exited" =>
               /\ input_data.kind = "resume"
               /\ input_data.decisions = returned.decisions

\* The step in which the operator's choice in the Decision Collector is exit:
\* the menu is left on its last entry, or a number other than 1, 2, 3 is
\* entered, and the collector calls sys.exit(0).
ExitChosen ==
    /\ \/ pc = "select" /\ selected = num_options - 1
       \/ pc = "choice"
    /\ raised' = "SystemExit"

\* C8: choosing exit in the Decision Collector ends the process at once with
\* exit code 0: no resume input is built, the engine is not invoked again,
\* no handler reports the exit as an error, and the ended process takes no
\* further step (it reads no operator message and starts no turn).
C8_ExitTerminatesProcess ==
    /\ [][ExitChosen =>
            /\ pc' = "exited"
            /\ exit_code' = 0
            /\ ~error_reported'
            /\ input_data'.kind # "resume"
            /\ invocations' = invocations
            /\ active' = 0]_vars
    /\ [][pc = "exited" => FALSE]_vars

C8_Witness ==
    /\ variant = "deepagent"
    /\ in_try
    /\ returned.path = "exit"
    /\ pc = "exited"
    /\ exit_code = 0

\* C9: once the stream of an invocation that carried an error chunk is
\* exhausted, the Decision Collector is not entered (so no resume follows),
\* whatever other chunks the stream carried.
C9_NoResumeAfterErrorChunk ==
    HasErrorChunk(chunks) => ~InCollector

\* C10: at most one engine invocation is in progress at any time, none is in
\* progress while the operator is asked for a decision or for the next
\* message, and the conversation loop is at its prompt only when no turn is
\* under way; in sync and in async mode.
C10_InvocationsSerialized ==
    /\ active <= 1
    /\ pc = "stream" <=> active = 1
    /\ pc = "prompt" => (active = 0 /\ invocations = 0 /\ chunks = <<>>)

C10_Witness ==
    /\ use_async
    /\ pc = "stream"
    /\ active = 1
    /\ invocations = 2
    /\ in_try
    /\ initial_message # <<>>

\* How many times ev occurs in a sequence of steps.
Count(seq, ev) == Cardinality({i \in DOMAIN seq : seq[i].ev = ev})

\* The chunks rendered by a sequence of steps, in order.
RECURSIVE Rendered(_)
Rendered(seq) ==
    IF seq = <<>> THEN <<>>
    ELSE IF Head(seq).ev = "print_chunk"
         THEN <<Head(seq).chunk>> \o Rendered(Tail(seq))
         ELSE Rendered(Tail(seq))

InTurn == pc \in {"stream", "select", "json", "choice", "returned"}

\* C11: in every invocation of the deepagent turn driver one spinner is
\* started; it is stopped before the first chunk is rendered, or after the
\* stream is exhausted when no chunk came; stop() is called at most once, and
\* exactly once by the time the Decision Collector is entered or the turn
\* returns, when no spinner is running.
C11_SpinnerStoppedOncePerInvocation ==
    (variant = "deepagent" /\ InTurn) =>
        /\ steps # <<>> /\ steps[1] = SpinnerStart
        /\ Count(steps, "spinner.start") = 1
        /\ Count(steps, "spinner.stop") <= 1
        /\ \A i \in DOMAIN steps :
               steps[i].ev = "print_chunk" =>
                   \E j \in 1..(i - 1) : steps[j] = SpinnerStop
        /\ (pc = "stream" /\ chunks = <<>>) =>
               (spinner = "running" /\ Count(steps, "spinner.stop") = 0)
        /\ pc # "stream" =>
               (spinner = "stopped" /\ Count(steps, "spinner.stop") = 1)

C11_Witness ==
    /\ variant = "deepagent"
    /\ pc = "returned"
    /\ chunks = <<>>
    /\ steps = <<SpinnerStart, SpinnerStop>>
    /\ spinner = "stopped"

\* C12: on every way an engine invocation of the deepagent driver can end, an
\* exception or operator interrupt before the first chunk included, the
\* spinner started for it has been stopped once control has left the turn
\* driver's stream loop.
C12_SpinnerStoppedOnEveryExit ==
    (variant = "deepagent" /\ pc # "stream") => spinner # "running"

\* C13: select_option hides the cursor on entry and has shown it again on
\* every way out: the cursor is hidden exactly while the menu is open, so
\* after Enter, after the ctrl-c key has ended the process, and after an
\* exception while reading a key it is visible.
C13_CursorRestored ==
    /\ pc = "select" => cursor_hidden
    /\ cursor_hidden => (variant = "deepagent" /\ pc = "select")

C13_Witness ==
    /\ variant = "deepagent"
    /\ collector_calls = 1
    /\ returned.path = "none"
    /\ raised = "SystemExit"
    /\ pc = "exited"
    /\ ~cursor_hidden

\* C14: when the deepagent driver has processed an interrupt chunk whose
\* payload lists no action requests (key missing or list empty), the pending
\* count is 1; entered after such an interrupt the Decision Collector is
\* asked for one decision, and a collector asked for one decision returns
\* exactly one, which is what the resume carries.
C14_DefaultCountOne ==
    variant = "deepagent" =>
        /\ (/\ chunks # <<>>
            /\ chunks[Len(chunks)].status = "interrupt"
            /\ chunks[Len(chunks)].n <= 0) => num_pending_actions = 1
        /\ (/\ pc \in {"select", "json"}
            /\ HasInterruptChunk(chunks)
            /\ chunks[LastInterrupt(chunks)].n <= 0) => num_pending_actions = 1
        /\ (returned.path \in Returning /\ returned.pending = 1) =>
               /\ Len(returned.decisions) = 1
               /\ pc # "exited" => Len(input_data.decisions) = 1

C14_Witness ==
    /\ variant = "deepagent"
    /\ pc = "select"
    /\ chunks = <<[status |-> "interrupt", n |-> 0]>>
    /\ num_pending_actions = 1

\* The action requests carried by all the interrupt chunks of a stream.
RECURSIVE TotalActionRequests(_)
TotalActionRequests(seq) ==
    IF seq = <<>> THEN 0
    ELSE (IF Head(seq).status = "interrupt" /\ Head(seq).n > 0
          THEN Head(seq).n ELSE 0) + TotalActionRequests(Tail(seq))

\* C15: the pending count is accumulated over the chunks of one invocation:
\* the count the Decision Collector of the deepagent driver is entered with
\* covers the action requests of all the interrupt chunks the invocation
\* streamed.
C15_CountAccumulated ==
    (variant = "deepagent" /\ pc = "select") =>
        num_pending_actions >= TotalActionRequests(chunks)

\* C16: run_single_turn_sync and run_single_turn_async are the same state
\* machine: from every state a turn of the deepagent driver reaches, in
\* either mode, the two functions allow exactly the same steps for the same
\* chunk, the same end of stream and the same input of a new invocation, with
\* the same spinner starts and stops, renders, counts and collector calls.
C16_SyncAsyncSameSteps ==
    [][variant = "deepagent" =>
          /\ pc = "stream" =>
                 /\ \A chunk \in Chunks :
                        run_single_turn_sync_chunk(chunk)
                            <=> run_single_turn_async_chunk(chunk)
                 /\ run_single_turn_sync_stream_end
                        <=> run_single_turn_async_stream_end
          /\ pc' = "stream" =>
                 (run_single_turn_sync_invoke(input_data')
                      <=> run_single_turn_async_invoke(input_data'))]_vars

C16_Witness ==
    /\ variant = "deepagent"
    /\ use_async
    /\ in_try
    /\ initial_message # <<>>
    /\ pc = "select"
    /\ num_pending_actions = 2
    /\ steps = <<SpinnerStart, SpinnerStop,
                 Step("print_chunk", [status |-> "interrupt", n |-> 2])>>

\* C17: both turn drivers hand every chunk of the stream to the renderer
\* exactly once and in stream order, whatever its status: whenever the
\* driver is between two chunks or past the stream, the chunks rendered are
\* the chunks streamed, and an interrupt the driver has noted has been
\* rendered.
C17_EveryChunkRenderedOnce ==
    InTurn =>
        /\ Rendered(steps) = chunks
        /\ Count(steps, "print_chunk") = Len(chunks)
        /\ has_interrupt =>
               \E i \in DOMAIN steps :
                   /\ steps[i].ev = "print_chunk"
                   /\ steps[i].chunk.status = "interrupt"

C17_Witness ==
    /\ variant = "langgraph"
    /\ pc = "choice"
    /\ chunks = <<[status |-> "interrupt", n |-> 1],
                  [status |-> "error", n |-> -1]>>
    /\ Rendered(steps) = chunks

\* How many of the three arguments a call of prepare_agent_input supplies.
Supplied(args) ==
    (IF args.message.some THEN 1 ELSE 0) + (IF args.decisions.some THEN 1 ELSE 0)
        + (IF args.raw_input.some THEN 1 ELSE 0)

\* The call failed with ValueError.
IsValueError(r) == "kind" \in DOMAIN r /\ r.kind = "ValueError"

PrepareReturned == call.fn = "prepare_agent_input" /\ call.done

\* C18: prepare_agent_input called with none of message, decisions,
\* raw_input fails with "Must provide one of"; called with two or more of
\* them, an empty one such as decisions=[] included, it fails with "Can only
\* provide one of"; it returns a value exactly when one is supplied.
C18_MutualExclusivity ==
    PrepareReturned =>
        /\ Supplied(call.args) = 0 =>
               (IsValueError(call.result)
                    /\ call.result.error = "Must provide one of")
        /\ Supplied(call.args) >= 2 =>
               (IsValueError(call.result)
                    /\ call.result.error = "Can only provide one of")
        /\ Supplied(call.args) = 1 <=> ~IsValueError(call.result)

C18_Witness ==
    /\ PrepareReturned
    /\ call.args.message = Some(<<"hello">>)
    /\ call.args.decisions = Some(<<>>)
    /\ call.args.raw_input = None
    /\ call.result.error = "Can only provide one of"

\* C19: prepare_agent_input with exactly one argument: a message m gives a
\* message list of exactly one message, of role user and content m; a raw
\* payload is returned unchanged; a decision sequence d gives a resume
\* command carrying d.
C19_OneInputWrapped ==
    (PrepareReturned /\ Supplied(call.args) = 1) =>
        /\ call.args.message.some =>
               /\ call.result.kind = "messages"
               /\ Len(call.result.messages) = 1
               /\ call.result.messages[1].role = "user"
               /\ call.result.messages[1].content = call.args.message.val
        /\ call.args.raw_input.some => call.result = call.args.raw_input.val
        /\ call.args.decisions.some =>
               /\ call.result.kind = "resume"
               /\ call.result.decisions = call.args.decisions.val

C19_Witness ==
    /\ PrepareReturned
    /\ call.args.message = Some(<<"hello">>)
    /\ call.args.decisions = None
    /\ call.args.raw_input = None
    /\ call.result.messages = <<[role |-> "user", content |-> <<"hello">>]>>

SerializeReturned == call.fn = "serialize_action_request" /\ call.done

\* C20: serialize_action_request(action, index=i) keeps the tool_call_id the
\* action supplies and gives an action without one exactly call_i; so two
\* actions without ids at different positions get different ids.
C20_ToolCallIdFallback ==
    SerializeReturned =>
        /\ call.result[1].tool_call_id =
               (IF call.args.action.tool_call_id.some
                THEN call.args.action.tool_call_id.val
                ELSE [prefix |-> "call_", k |-> call.args.index])
        /\ call.result[2].tool_call_id =
               (IF call.args.other.tool_call_id.some
                THEN call.args.other.tool_call_id.val
                ELSE [prefix |-> "call_", k |-> call.args.other_index])
        /\ (/\ ~call.args.action.tool_call_id.some
            /\ ~call.args.other.tool_call_id.some
            /\ call.args.index # call.args.other_index) =>
               call.result[1].tool_call_id # call.result[2].tool_call_id

C20_Witness ==
    /\ SerializeReturned
    /\ call.args.action = [tool |-> "t", tool_call_id |-> None]
    /\ call.args.index = 5
    /\ call.result[1].tool_call_id = [prefix |-> "call_", k |-> 5]
    /\ ~call.args.other.tool_call_id.some
    /\ call.args.other_index = 0

C23_ElapsedSpansTurn ==
    (variant = "deepagent" /\ InTurn) =>
        /\ start_time = 0
        /\ now = (invocations - (IF pc = "stream" THEN 1 ELSE 0))
                   + (collector_calls - (IF InCollector THEN 1 ELSE 0))
        /\ pc = "returned" =>
               /\ duration = now - start_time
               /\ duration = invocations + collector_calls
        /\ pc # "returned" => duration = -1

C23_Witness ==
    /\ variant = "deepagent"
    /\ pc = "returned"
    /\ invocations = 2
    /\ collector_calls = 1
    /\ start_time = 0
    /\ duration = 3

\* C24: the interrupt-resume loop goes round until an invocation streams no
\* interrupt chunk and then stops: when every stream is finite, the operator
\* answers every prompt and the engine stops suspending, a turn that is
\* streaming or waiting for a decision eventually returns its duration
\* (or is left by an exit or an exception); and the driver resumes after
\* every decision, however many invocations the turn has made.
C24_TurnEventuallyReturns ==
    /\ (pc \in {"stream", "select", "json", "choice"})
           ~> (pc = "returned" \/ raised # "")
    /\ [](variant = "deepagent" /\ pc = "select" /\ selected = 0
              => ENABLED select_option_key("enter"))

C24_Witness ==
    /\ variant = "deepagent"
    /\ interactive
    /\ pc = "returned"
    /\ invocations = MaxResumes + 1
    /\ collector_calls = MaxResumes
    /\ raised = ""

\* C25: in select_option the highlighted index stays within
\* 0..len(options)-1 whatever keys are pressed: up at index 0 and down at the
\* last index leave it where it is, a key other than up, down, enter and
\* ctrl-c leaves it where it is, and the menu is left with a result only by
\* Enter, with the index highlighted then: handle_interrupt_input goes on with
\* approve-all for 0, reject-all for 1, the JSON prompt for 2, exit for 3.
C25_SelectedStaysInRange ==
    [][(variant = "deepagent" /\ pc = "select") =>
          /\ selected \in 0..(num_options - 1)
          /\ pc' = "select" => selected' \in 0..(num_options - 1)
          /\ select_option_key("up") =>
                 /\ pc' = "select"
                 /\ selected' = (IF selected = 0 THEN 0 ELSE selected - 1)
          /\ select_option_key("down") =>
                 /\ pc' = "select"
                 /\ selected' = (IF selected = 3 THEN 3 ELSE selected + 1)
          /\ select_option_key("x") => (pc' = "select" /\ selected' = selected)
          /\ select_option_key("enter") =>
                 /\ pc' # "select"
                 /\ selected = 0 => (returned'.path = "approve" /\ pc' = "stream")
                 /\ selected = 1 => (returned'.path = "reject" /\ pc' = "stream")
                 /\ selected = 2 => pc' = "json"
                 /\ selected = 3 =>
                        (returned'.path = "exit" /\ raised' = "SystemExit")
          /\ (pc' # "select" /\ raised' = "") => select_option_key("enter")]_vars

C25_Witness ==
    /\ variant = "deepagent"
    /\ pc = "stream"
    /\ invocations = 2
    /\ returned.path = "reject"
    /\ returned.pending = 2
    /\ selected = 0

\* C26: every engine invocation of the deepagent driver is made with the
\* thread_id the config holds, which main has made sure is there, and all
\* invocations of one turn are made with the same one; the thread_id changes
\* only when main supplies the missing one and on the /c command, which
\* always replaces it with one not used before; no step of a turn changes it.
C26_ThreadIdStable ==
    /\ [](variant = "deepagent" =>
              /\ Len(thread_ids) = invocations
              /\ \A i \in DOMAIN thread_ids :
                     /\ thread_ids[i] # NoThread
                     /\ thread_ids[i] = thread_id
                     /\ thread_ids[i] = thread_ids[1])
    /\ [][variant = "deepagent" =>
              /\ thread_id' # thread_id =>
                     \/ pc = "start" /\ thread_id = NoThread
                     \/ /\ pc = "prompt" /\ pc' = "prompt"
                        /\ user_input' = <<"/c">>
                        /\ thread_id' > thread_id
              /\ (pc = "prompt" /\ pc' = "prompt" /\ user_input' = <<"/c">>) =>
                     thread_id' > thread_id
              /\ InTurn => thread_id' = thread_id]_vars

C26_Witness ==
    /\ variant = "deepagent"
    /\ pc = "stream"
    /\ user_input = <<"hi">>
    /\ thread_id = 1
    /\ thread_ids = <<1, 1>>

\* The message the current turn was started with.
TurnMessage == IF in_try THEN user_input ELSE initial_message

\* How many times the Decision Collector has returned in the current turn.
CollectorReturns == collector_calls - (IF InCollector THEN 1 ELSE 0)

\* C27: within a turn the first engine invocation gets the input built from
\* the user's message and every later one an input built from decisions; the
\* invocations made are one more than the returns of the Decision Collector,
\* so a turn that returns has made one plus that many; and the Decision
\* Collector is entered only after an invocation that streamed an interrupt
\* chunk, never before the first invocation.
C27_InputsOfATurn ==
    InTurn =>
        /\ invocations >= 1
        /\ invocations = 1 =>
               /\ input_data.kind = "messages"
               /\ input_data.messages
                      = <<[role |-> "user", content |-> TurnMessage]>>
               /\ input_data.decisions = <<>>
        /\ invocations >= 2 =>
               /\ input_data.kind = "resume"
               /\ input_data.messages = <<>>
               /\ input_data.decisions = returned.decisions
        /\ invocations = 1 + CollectorReturns
        /\ pc = "returned" => invocations = 1 + collector_calls
        /\ InCollector => (HasInterruptChunk(chunks) /\ has_interrupt)
        /\ collector_calls <= invocations

C27_Witness ==
    /\ variant = "langgraph"
    /\ pc = "returned"
    /\ invocations = 2
    /\ collector_calls = 1
    /\ input_data.kind = "resume"
    /\ input_data.decisions = <<Approve>>

\* C28: once Spinner.stop() has returned the spinner thread writes nothing
\* more: on the terminal no spinner frame comes after the line was cleared by
\* stop(), so none is interleaved with the chunk output or the decision menu
\* that follows; and the thread, once told to stop, is not started again.
C28_NoFrameAfterStop ==
    /\ \A i, j \in DOMAIN spin.out :
           (i < j /\ spin.out[i] \in {"clear", "chunk", "menu"})
               => spin.out[j] # "frame"
    /\ spin.main \in {"stopped", "printed"} =>
           (~spin.running /\ spin.thread = "ended")

\* C29: an exception raised while a turn of the conversation loop runs, the
\* turn of the initial message as well as any later one, does not end the
\* conversation: the error is reported and the loop prompts for the next
\* message; the process ends only by a quit command, EOF or KeyboardInterrupt
\* (or the exit choice of the Decision Collector).
C29_ErrorKeepsConversation ==
    [][variant = "deepagent" =>
          /\ (InTurn /\ raised' = "Exception") =>
                 (pc' = "prompt" /\ error_reported' /\ exit_code' = -1)
          /\ (pc # "exited" /\ pc' = "exited") =>
                 \/ pc = "prompt" /\ user_input' \in QuitCommands
                 \/ raised' \in {"EOFError", "KeyboardInterrupt", "SystemExit"}]_vars

\* No engine invocation is made or open after the step.
NothingInvoked == invocations' = 0 /\ active' = 0 /\ input_data' = NoInput

\* C30: at the prompt of run_conversation_loop an empty or blank line and
\* the commands /c, /h, /help invoke nothing and leave the loop at its
\* prompt; /q, /quit, /exit and exit (with blanks around them or not) end
\* the loop without invoking the engine; any other line starts exactly one
\* turn whose message is the line without its surrounding blanks.
C30_PromptCommands ==
    [][(variant = "deepagent" /\ pc = "prompt") =>
          \A line \in UserInputs :
              run_conversation_loop_input(line) =>
                  /\ line \in {<<>>, <<" ">>, <<"/h">>, <<"/help">>} =>
                         /\ pc' = "prompt"
                         /\ NothingInvoked
                         /\ thread_id' = thread_id
                  /\ line = <<"/c">> =>
                         /\ pc' = "prompt"
                         /\ NothingInvoked
                         /\ thread_id' # thread_id
                  /\ line \in {<<"/q">>, <<"/quit">>, <<"/exit">>, <<"exit">>,
                               <<" ", "/q">>} =>
                         /\ pc' = "exited"
                         /\ exit_code' = 0
                         /\ NothingInvoked
                  /\ line = <<" ", "hi", " ">> =>
                         /\ pc' = "stream"
                         /\ invocations' = 1
                         /\ active' = 1
                         /\ input_data'.kind = "messages"
                         /\ input_data'.messages
                                = <<[role |-> "user", content |-> <<"hi">>]>>]_vars

C30_Witness ==
    /\ variant = "deepagent"
    /\ in_try
    /\ pc = "stream"
    /\ invocations = 1
    /\ user_input = <<"hi">>
    /\ input_data.messages = <<[role |-> "user", content |-> <<"hi">>]>>
    /\ thread_id = 1

InterruptReturned == call.fn = "process_interrupt" /\ call.done

\* The action requests an interrupt value carries, in its own order.
SourceActions(v) ==
    IF v.shape = "single" THEN <<v.value>> ELSE v.value.action_requests

\* A tool_call_id that is not the empty string.
NonEmptyId(id) == id.prefix # ""

====
